---- MODULE Spec2Model ----
(***************************************************************************)
(* A model of raw_str::RawString (src/src/raw_string_imp.rs): an owned,    *)
(* growable byte string wrapping Vec<u8>, its conversions to String        *)
(* (checked, lossy), its derived comparison, its borrowed RawStr views and *)
(* its formatting.  Bytes are integers 0..255; a String is the sequence of *)
(* its UTF-8 bytes, as in Rust.                                            *)
(***************************************************************************)
EXTENDS Integers, Sequences, FiniteSets, TLC

VARIABLES
    buf,      \* RawString.0 : the bytes of the RawString under observation
    alive,    \* FALSE once the RawString has been moved into a conversion
    origin,   \* the String the RawString was built from, while untouched
    other,    \* the right-hand operand of a comparison
    last      \* the last operation and what it returned

vars == <<buf, alive, origin, other, last>>

(***************************************************************************)
(* Bounds.                                                                 *)
(***************************************************************************)
MaxLen   == 3    \* longest buffer the Vec operations are applied to
MaxChars == 2    \* longest String (in chars) a RawString is built from
MaxCmpLen == 2   \* longest operand of a comparison

(***************************************************************************)
(* Sample bytes: 'h' 'i', the continuation bytes 80 A0, a lead of each     *)
(* width C2 E0 F0 (E0 and F0 restrict their second byte), and FE FF, which *)
(* occur nowhere in UTF-8.  The leads ED and F4 come in through the chars. *)
(***************************************************************************)
ByteSamples == {104, 105, 128, 160, 194, 224, 240, 254, 255}

\* chars: h i U+0080 U+00A0 U+0800 U+D000 U+FFFD U+20000 U+100000
CharSamples == {104, 105, 128, 160, 2048, 53248, 65533, 131072, 1048576}

\* bytes compared: 00 'h' 80 FF (both sides of the sign bit)
CmpSamples == {0, 104, 128, 255}

\* bytes written into the middle of a buffer: 'i', a continuation byte, FF
WriteSamples == {105, 160, 255}

\* slices appended in one call
ExtendSamples == {<<>>, <<104, 105>>, <<255, 254>>, <<160, 128>>}

RECURSIVE SeqsUpTo(_, _)
SeqsUpTo(S, n) ==
    IF n = 0 THEN {<<>>}
    ELSE LET shorter == SeqsUpTo(S, n - 1)
         IN  shorter \cup {Append(s, x) : s \in shorter, x \in S}

ByteSeqs == SeqsUpTo(ByteSamples, MaxLen)
CharSeqs == SeqsUpTo(CharSamples, MaxChars)
CmpSeqs  == SeqsUpTo(CmpSamples, MaxCmpLen)

Drop(s, n) == SubSeq(s, n + 1, Len(s))
Take(s, n) == SubSeq(s, 1, n)

(***************************************************************************)
(* core::str: the validation that String::from_utf8 runs.                  *)
(***************************************************************************)
\* core::str::utf8_char_width (UTF8_CHAR_WIDTH table)
utf8_char_width(b) ==
    IF b < 128 THEN 1
    ELSE IF b < 194 THEN 0
    ELSE IF b < 224 THEN 2
    ELSE IF b < 240 THEN 3
    ELSE IF b < 245 THEN 4
    ELSE 0

\* (byte & 0xC0) == 0x80, i.e. (byte as i8) < -64
IsCont(b) == b >= 128 /\ b < 192

\* a mutant: any continuation byte accepted after a three-byte lead
\* (overlong E0 80.., surrogates ED A0..)
Second3_any_continuation(first, second) ==
    first >= 224 /\ first <= 239 /\ IsCont(second)

\* the (first, second) pairs a three-byte sequence may start with
Second3(first, second) ==
    \/ first = 224 /\ second >= 160 /\ second <= 191
    \/ first >= 225 /\ first <= 236 /\ IsCont(second)
    \/ first = 237 /\ second >= 128 /\ second <= 159
    \/ first >= 238 /\ first <= 239 /\ IsCont(second)

\* the (first, second) pairs a four-byte sequence may start with
Second4(first, second) ==
    \/ first = 240 /\ second >= 144 /\ second <= 191
    \/ first >= 241 /\ first <= 243 /\ IsCont(second)
    \/ first = 244 /\ second >= 128 /\ second <= 143

Utf8Ok == [ok |-> TRUE, valid_up_to |-> 0, error_len |-> 0]

\* a mutant: the error reports the byte at which the scan stopped
Utf8Err_at_failing_byte(old_offset, index, error_len) ==
    [ok |-> FALSE, valid_up_to |-> index, error_len |-> error_len]

\* err!(error_len): Utf8Error { valid_up_to: old_offset, error_len };
\* error_len 0 stands for None (input ended inside a sequence)
Utf8Err(old_offset, index, error_len) ==
    [ok |-> FALSE, valid_up_to |-> old_offset, error_len |-> error_len]

\* core::str::run_utf8_validation, from byte offset index (0-based)
RECURSIVE run_utf8_validation(_, _)
run_utf8_validation(v, index) ==
    IF index >= Len(v) THEN Utf8Ok
    ELSE
    LET first  == v[index + 1]
        w      == utf8_char_width(first)
        has(k) == index + k < Len(v)
        at(k)  == v[index + k + 1]
    IN  IF first < 128 THEN run_utf8_validation(v, index + 1)
        ELSE IF w = 2 THEN
            IF ~has(1) THEN Utf8Err(index, index + 1, 0)
            ELSE IF ~IsCont(at(1)) THEN Utf8Err(index, index + 1, 1)
            ELSE run_utf8_validation(v, index + 2)
        ELSE IF w = 3 THEN
            IF ~has(1) THEN Utf8Err(index, index + 1, 0)
            ELSE IF ~Second3(first, at(1)) THEN Utf8Err(index, index + 1, 1)
            ELSE IF ~has(2) THEN Utf8Err(index, index + 2, 0)
            ELSE IF ~IsCont(at(2)) THEN Utf8Err(index, index + 2, 2)
            ELSE run_utf8_validation(v, index + 3)
        ELSE IF w = 4 THEN
            IF ~has(1) THEN Utf8Err(index, index + 1, 0)
            ELSE IF ~Second4(first, at(1)) THEN Utf8Err(index, index + 1, 1)
            ELSE IF ~has(2) THEN Utf8Err(index, index + 2, 0)
            ELSE IF ~IsCont(at(2)) THEN Utf8Err(index, index + 2, 2)
            ELSE IF ~has(3) THEN Utf8Err(index, index + 3, 0)
            ELSE IF ~IsCont(at(3)) THEN Utf8Err(index, index + 3, 3)
            ELSE run_utf8_validation(v, index + 4)
        ELSE Utf8Err(index, index, 1)

\* String::from_utf8(vec): Ok(String { vec }) or
\* Err(FromUtf8Error { bytes: vec, error })
from_utf8(vec) ==
    LET e == run_utf8_validation(vec, 0)
    IN  IF e.ok THEN [ok |-> TRUE, string |-> vec]
        ELSE [ok |-> FALSE, bytes |-> vec,
              valid_up_to |-> e.valid_up_to, error_len |-> e.error_len]

(***************************************************************************)
(* core::str::lossy: Utf8Chunks and String::from_utf8_lossy.               *)
(***************************************************************************)
\* safe_get(xs, i): the byte at 0-based i, or 0 past the end
safe_get(xs, i) == IF i < Len(xs) THEN xs[i + 1] ELSE 0

\* a mutant: a broken sequence is given up at its lead byte, the
\* continuation bytes already matched are left for the next chunk
ChunkBreak_lead_only(start, i, valid_up_to) ==
    [valid_up_to |-> valid_up_to, i |-> start + 1]

\* `break` inside the loop of Utf8Chunks::next: the scan stops at i
ChunkBreak(start, i, valid_up_to) ==
    [valid_up_to |-> valid_up_to, i |-> i]

\* the loop of Utf8Chunks::next over source; i and valid_up_to are the
\* loop's variables; the result is their value when the loop ends
RECURSIVE ChunkScan(_, _, _)
ChunkScan(source, i, valid_up_to) ==
    IF i >= Len(source) THEN [valid_up_to |-> valid_up_to, i |-> i]
    ELSE
    LET byte == source[i + 1]
        j    == i + 1
        w    == utf8_char_width(byte)
    IN  IF byte < 128 THEN ChunkScan(source, j, j)
        ELSE IF w = 2 THEN
            IF ~IsCont(safe_get(source, j)) THEN ChunkBreak(i, j, valid_up_to)
            ELSE ChunkScan(source, j + 1, j + 1)
        ELSE IF w = 3 THEN
            IF ~Second3(byte, safe_get(source, j))
            THEN ChunkBreak(i, j, valid_up_to)
            ELSE IF ~IsCont(safe_get(source, j + 1))
            THEN ChunkBreak(i, j + 1, valid_up_to)
            ELSE ChunkScan(source, j + 2, j + 2)
        ELSE IF w = 4 THEN
            IF ~Second4(byte, safe_get(source, j))
            THEN ChunkBreak(i, j, valid_up_to)
            ELSE IF ~IsCont(safe_get(source, j + 1))
            THEN ChunkBreak(i, j + 1, valid_up_to)
            ELSE IF ~IsCont(safe_get(source, j + 2))
            THEN ChunkBreak(i, j + 2, valid_up_to)
            ELSE ChunkScan(source, j + 3, j + 3)
        ELSE ChunkBreak(i, j, valid_up_to)

\* Utf8Chunks::next on a non-empty source: the chunk and the remaining source
next_chunk(source) ==
    LET r == ChunkScan(source, 0, 0)
    IN  [valid     |-> Take(source, r.valid_up_to),
         invalid   |-> SubSeq(source, r.valid_up_to + 1, r.i),
         remaining |-> Drop(source, r.i)]

\* "\u{FFFD}" as UTF-8
REPLACEMENT == <<239, 191, 189>>

\* `for chunk in iter { res.push_str(chunk.valid());
\*    if !chunk.invalid().is_empty() { res.push_str(REPLACEMENT) } }`
RECURSIVE lossy_rest(_, _)
lossy_rest(source, res) ==
    IF source = <<>> THEN res
    ELSE LET chunk == next_chunk(source)
         IN  lossy_rest(chunk.remaining,
                 res \o chunk.valid
                     \o (IF chunk.invalid # <<>> THEN REPLACEMENT ELSE <<>>))

\* a mutant: the copy is made even when nothing is replaced
from_utf8_lossy_always_owned(v) ==
    [owned |-> TRUE, text |-> lossy_rest(v, <<>>)]

\* a mutant: the undecodable bytes are copied instead of replaced
from_utf8_lossy_keeps_invalid(v) ==
    IF from_utf8(v).ok THEN [owned |-> FALSE, text |-> v]
    ELSE [owned |-> TRUE, text |-> v]

\* String::from_utf8_lossy(v): Cow::Borrowed(valid) when the first chunk has
\* no invalid part (or there is no chunk), else Cow::Owned(res)
from_utf8_lossy(v) ==
    IF v = <<>> THEN [owned |-> FALSE, text |-> <<>>]
    ELSE LET chunk == next_chunk(v)
         IN  IF chunk.invalid = <<>>
             THEN [owned |-> FALSE, text |-> chunk.valid]
             ELSE [owned |-> TRUE,
                   text  |-> lossy_rest(chunk.remaining,
                                        chunk.valid \o REPLACEMENT)]

\* char::encode_utf8: the bytes of one char (a Unicode scalar value)
encode_utf8(c) ==
    IF c < 128 THEN <<c>>
    ELSE IF c < 2048 THEN <<192 + (c \div 64), 128 + (c % 64)>>
    ELSE IF c < 65536 THEN
        <<224 + (c \div 4096), 128 + ((c \div 64) % 64), 128 + (c % 64)>>
    ELSE <<240 + (c \div 262144), 128 + ((c \div 4096) % 64),
           128 + ((c \div 64) % 64), 128 + (c % 64)>>

\* the String made of the chars cs (String::push for each)
RECURSIVE StringOf(_)
StringOf(cs) ==
    IF cs = <<>> THEN <<>>
    ELSE encode_utf8(Head(cs)) \o StringOf(Tail(cs))

(***************************************************************************)
(* Well-formed UTF-8 as the Unicode standard tabulates it (Table 3-7):     *)
(* what "valid text" means, stated without any scanning algorithm.         *)
(***************************************************************************)
WellFormedChar(s) ==
    \/ Len(s) = 1 /\ s[1] <= 127
    \/ Len(s) = 2 /\ s[1] >= 194 /\ s[1] <= 223 /\ s[2] \in 128..191
    \/ Len(s) = 3 /\ s[3] \in 128..191
         /\ \/ s[1] = 224 /\ s[2] \in 160..191
            \/ s[1] \in 225..236 /\ s[2] \in 128..191
            \/ s[1] = 237 /\ s[2] \in 128..159
            \/ s[1] \in 238..239 /\ s[2] \in 128..191
    \/ Len(s) = 4 /\ s[3] \in 128..191 /\ s[4] \in 128..191
         /\ \/ s[1] = 240 /\ s[2] \in 144..191
            \/ s[1] \in 241..243 /\ s[2] \in 128..191
            \/ s[1] = 244 /\ s[2] \in 128..143

\* s is a concatenation of well-formed chars, nothing left over
RECURSIVE WellFormedText(_)
WellFormedText(s) ==
    \/ s = <<>>
    \/ \E k \in 1..4 :
         /\ k <= Len(s)
         /\ WellFormedChar(Take(s, k))
         /\ WellFormedText(Drop(s, k))

(***************************************************************************)
(* crate::RawStr, the borrowed view.  A view is the part of the buffer it  *)
(* borrows: an offset and a length.                                        *)
(***************************************************************************)
\* the bytes a view of the buffer b covers
ViewBytes(view, b) == [i \in 1..view.len |-> b[view.off + i]]

\* &self.0 / &mut self.0 coerced to a slice: the whole Vec
as_slice(b) == [off |-> 0, len |-> Len(b)]

\* RawStr::from_bytes / RawStr::from_bytes_mut: the slice, reinterpreted
RawStr_from_bytes(slice) == slice

\* RawStr::is_utf8 over the bytes of the view
RawStr_is_utf8(bytes) == WellFormedText(bytes)

HexDigit(n) == IF n < 10 THEN 48 + n ELSE 87 + n

RECURSIVE HexDigits(_)
HexDigits(n) ==
    IF n < 16 THEN <<HexDigit(n)>>
    ELSE HexDigits(n \div 16) \o <<HexDigit(n % 16)>>

\* the escape of the first char of a valid text, and that char's width
EscapeFirst(text) ==
    LET b == text[1]
        w == utf8_char_width(b)
    IN  IF b = 34 \/ b = 92 THEN [w |-> 1, out |-> <<92, b>>]
        ELSE IF b < 32 \/ b = 127
             THEN [w |-> 1, out |-> <<92, 117, 123>> \o HexDigits(b) \o <<125>>]
        ELSE IF b = 194 /\ text[2] < 160
             THEN [w |-> 2, out |-> <<92, 117, 123>> \o HexDigits(text[2]) \o <<125>>]
        ELSE [w |-> w, out |-> Take(text, w)]

\* a valid text with quotes, backslashes and control characters escaped
RECURSIVE EscapeText(_)
EscapeText(text) ==
    IF text = <<>> THEN <<>>
    ELSE LET e == EscapeFirst(text)
         IN  e.out \o EscapeText(Drop(text, e.w))

\* undecodable bytes, each as \xNN
RECURSIVE EscapeBytes(_)
EscapeBytes(bytes) ==
    IF bytes = <<>> THEN <<>>
    ELSE <<92, 120, HexDigit(Head(bytes) \div 16), HexDigit(Head(bytes) % 16)>>
         \o EscapeBytes(Tail(bytes))

RECURSIVE DebugBody(_)
DebugBody(source) ==
    IF source = <<>> THEN <<>>
    ELSE LET chunk == next_chunk(source)
         IN  EscapeText(chunk.valid) \o EscapeBytes(chunk.invalid)
             \o DebugBody(chunk.remaining)

\* <RawStr as Debug>::fmt: quoted, valid runs escaped as str does,
\* undecodable bytes escaped one by one
RawStr_fmt_debug(bytes) ==
    [ok |-> TRUE, out |-> <<34>> \o DebugBody(bytes) \o <<34>>]

\* <RawStr as Display>::fmt: the text, undecodable runs replaced
RawStr_fmt_display(bytes) ==
    [ok |-> TRUE, out |-> from_utf8_lossy(bytes).text]

(***************************************************************************)
(* RawString.                                                              *)
(***************************************************************************)
\* a mutant: the last byte is lost in construction
from_bytes_drops_last(bytes) == Take(bytes, Len(bytes) - 1)

\* RawString::from_bytes(bytes): Self(bytes)
from_bytes(bytes) == bytes

\* B: Into<Vec<u8>> for Vec<u8>, &[u8], String (into_bytes), &str
into_vec(bytes) == bytes

\* RawString::from(bytes), and From<T: Into<Vec<u8>>> for RawString
from(bytes) == from_bytes(into_vec(bytes))

\* a mutant: the view stops one byte short
as_ref_short(b) == RawStr_from_bytes([off |-> 0, len |-> Len(b) - 1])

\* RawString::as_ref(&self) -> &RawStr
as_ref(b) == RawStr_from_bytes(as_slice(b))

\* RawString::as_mut(&mut self) -> &mut RawStr
as_mut(b) == RawStr_from_bytes(as_slice(b))

\* RawString::to_utf8_checked(self)
to_utf8_checked(b) == from_utf8(b)

\* <String as TryFrom<RawString>>::try_from(this)
try_from(b) == from_utf8(b)

\* RawString::to_utf8_lossy(&self)
to_utf8_lossy(b) == from_utf8_lossy(b)

\* a mutant: only the first char is looked at
is_utf8_first_char(b) ==
    b = <<>> \/ \E k \in 1..4 : k <= Len(b) /\ WellFormedChar(Take(b, k))

\* RawString::is_utf8(&self)
is_utf8(b) == RawStr_is_utf8(ViewBytes(as_ref(b), b))

\* <RawString as fmt::Debug>::fmt
fmt_Debug(b) == RawStr_fmt_debug(ViewBytes(as_ref(b), b))

\* a mutant: Display goes through the checked conversion
fmt_Display_checked(b) ==
    IF from_utf8(b).ok THEN [ok |-> TRUE, out |-> b]
    ELSE [ok |-> FALSE, out |-> <<>>]

\* <RawString as fmt::Display>::fmt
fmt_Display(b) == RawStr_fmt_display(ViewBytes(as_ref(b), b))

(***************************************************************************)
(* #[derive(PartialEq, Eq, PartialOrd, Ord)] on RawString(Vec<u8>): the    *)
(* comparisons of the one field, i.e. of two byte slices.                  *)
(***************************************************************************)
\* a mutant: bytes compared as i8
byte_cmp_signed(x, y) ==
    LET sx == IF x >= 128 THEN x - 256 ELSE x
        sy == IF y >= 128 THEN y - 256 ELSE y
    IN  IF sx < sy THEN -1 ELSE IF sx > sy THEN 1 ELSE 0

\* u8::cmp: Less = -1, Equal = 0, Greater = 1
byte_cmp(x, y) == IF x < y THEN -1 ELSE IF x > y THEN 1 ELSE 0

\* memcmp over the first n bytes, from 1-based position k
RECURSIVE memcmp(_, _, _, _)
memcmp(a, b, k, n) ==
    IF k > n THEN 0
    ELSE LET c == byte_cmp(a[k], b[k])
         IN  IF c # 0 THEN c ELSE memcmp(a, b, k + 1, n)

\* <[u8] as Ord>::cmp: memcmp over the common length, then the lengths
slice_cmp(a, b) ==
    LET n     == IF Len(a) < Len(b) THEN Len(a) ELSE Len(b)
        order == memcmp(a, b, 1, n)
    IN  IF order # 0 THEN order
        ELSE IF Len(a) < Len(b) THEN -1
        ELSE IF Len(a) > Len(b) THEN 1
        ELSE 0

\* <[u8] as PartialEq>::eq: equal lengths and equal memory
slice_eq(a, b) == Len(a) = Len(b) /\ memcmp(a, b, 1, Len(a)) = 0

\* <RawString as PartialEq>::eq (derived)
RawString_eq(a, b) == slice_eq(a, b)

\* <RawString as Ord>::cmp (derived)
RawString_cmp(a, b) == slice_cmp(a, b)

(***************************************************************************)
(* The state machine.                                                      *)
(***************************************************************************)
NoOrigin == [isStr |-> FALSE, s |-> <<>>]
Idle     == [op |-> "idle"]
VecOp    == [op |-> "vec_op"]

\* no RawString yet
Init ==
    /\ buf = <<>>
    /\ alive = FALSE
    /\ origin = NoOrigin
    /\ other = <<>>
    /\ last = Idle

CanConstruct == ~alive /\ last = Idle

\* RawString::new()
New ==
    /\ CanConstruct
    /\ buf' = from(<<>>)
    /\ alive' = TRUE
    /\ origin' = NoOrigin
    /\ last' = [op |-> "new"]
    /\ UNCHANGED other

\* RawString::from(bytes) for a Vec<u8> or a byte slice
From(bytes) ==
    /\ CanConstruct
    /\ buf' = from(bytes)
    /\ alive' = TRUE
    /\ origin' = NoOrigin
    /\ last' = [op |-> "from"]
    /\ UNCHANGED other

\* RawString::from(s) for the String s made of the chars cs
FromStr(cs) ==
    /\ CanConstruct
    /\ buf' = from(StringOf(cs))
    /\ alive' = TRUE
    /\ origin' = [isStr |-> TRUE, s |-> StringOf(cs)]
    /\ last' = [op |-> "from_str"]
    /\ UNCHANGED other

\* the RawString, or the result of its conversion, goes out of scope
DropValue ==
    /\ alive \/ last # Idle
    /\ buf' = <<>>
    /\ alive' = FALSE
    /\ origin' = NoOrigin
    /\ last' = Idle
    /\ UNCHANGED other

\* a Vec<u8> operation through DerefMut leaves the bytes nb
Mutate(nb) ==
    /\ buf' = nb
    /\ origin' = NoOrigin
    /\ last' = VecOp
    /\ UNCHANGED <<alive, other>>

\* Vec::push(b)
Push(b) ==
    /\ alive /\ Len(buf) < MaxLen
    /\ Mutate(Append(buf, b))

\* Vec::extend_from_slice(bs)
Extend(bs) ==
    /\ alive /\ Len(buf) + Len(bs) <= MaxLen
    /\ Mutate(buf \o bs)

\* Vec::insert(i, b), 0-based i <= len
Insert(i, b) ==
    /\ alive /\ Len(buf) < MaxLen
    /\ i <= Len(buf)
    /\ Mutate(Take(buf, i) \o <<b>> \o Drop(buf, i))

\* Vec::remove(i), 0-based i < len
Remove(i) ==
    /\ alive /\ Len(buf) <= MaxLen
    /\ i < Len(buf)
    /\ Mutate(Take(buf, i) \o Drop(buf, i + 1))

\* Vec::truncate(n): no effect when n >= len
Truncate(n) ==
    /\ alive /\ Len(buf) <= MaxLen
    /\ Mutate(IF n < Len(buf) THEN Take(buf, n) ELSE buf)

\* self[i] = b through DerefMut and IndexMut, 0-based i < len
Write(i, b) ==
    /\ alive /\ Len(buf) <= MaxLen
    /\ i < Len(buf)
    /\ Mutate([buf EXCEPT ![i + 1] = b])

\* self.is_utf8()
IsUtf8 ==
    /\ alive
    /\ last' = [op |-> "is_utf8", res |-> is_utf8(buf)]
    /\ UNCHANGED <<buf, alive, origin, other>>

\* self.to_utf8_lossy()
ToUtf8Lossy ==
    /\ alive
    /\ last' = [op |-> "to_utf8_lossy", res |-> to_utf8_lossy(buf)]
    /\ UNCHANGED <<buf, alive, origin, other>>

\* self.to_utf8_checked(): self is moved into the result
ToUtf8Checked ==
    /\ alive
    /\ last' = [op |-> "to_utf8_checked", input |-> buf,
                res |-> to_utf8_checked(buf)]
    /\ buf' = <<>>
    /\ alive' = FALSE
    /\ UNCHANGED <<origin, other>>

\* String::try_from(self): self is moved into the result
TryFrom ==
    /\ alive
    /\ last' = [op |-> "try_from", input |-> buf, res |-> try_from(buf)]
    /\ buf' = <<>>
    /\ alive' = FALSE
    /\ UNCHANGED <<origin, other>>

\* self.as_ref(), also AsRef<RawStr> and Borrow<RawStr>
AsRef ==
    /\ alive
    /\ last' = [op |-> "as_ref", view |-> as_ref(buf)]
    /\ UNCHANGED <<buf, alive, origin, other>>

\* self.as_mut(), also AsMut<RawStr> and BorrowMut<RawStr>
AsMut ==
    /\ alive
    /\ last' = [op |-> "as_mut", view |-> as_mut(buf)]
    /\ UNCHANGED <<buf, alive, origin, other>>

\* a byte written through the outstanding &mut RawStr, 0-based i
ViewWrite(i, b) ==
    /\ alive /\ Len(buf) <= MaxLen
    /\ last.op \in {"as_mut", "view_write"}
    /\ i < last.view.len
    /\ buf' = [buf EXCEPT ![last.view.off + i + 1] = b]
    /\ last' = [op |-> "view_write", view |-> last.view]
    /\ origin' = NoOrigin
    /\ UNCHANGED <<alive, other>>

\* format!("{:?}", self)
FmtDebug ==
    /\ alive
    /\ last' = [op |-> "fmt_debug", res |-> fmt_Debug(buf)]
    /\ UNCHANGED <<buf, alive, origin, other>>

\* format!("{}", self)
FmtDisplay ==
    /\ alive
    /\ last' = [op |-> "fmt_display", res |-> fmt_Display(buf)]
    /\ UNCHANGED <<buf, alive, origin, other>>

Next ==
    \/ New
    \/ CanConstruct /\ \E bytes \in ByteSeqs : From(bytes)
    \/ CanConstruct /\ \E cs \in CharSeqs : FromStr(cs)
    \/ DropValue
    \/ \E b \in ByteSamples : Push(b)
    \/ \E bs \in ExtendSamples : Extend(bs)
    \/ \E i \in 0..MaxLen, b \in WriteSamples : Insert(i, b)
    \/ \E i \in 0..MaxLen : Remove(i)
    \/ \E n \in 0..MaxLen : Truncate(n)
    \/ \E i \in 0..MaxLen, b \in WriteSamples : Write(i, b)
    \/ IsUtf8
    \/ ToUtf8Lossy
    \/ ToUtf8Checked
    \/ TryFrom
    \/ AsRef
    \/ AsMut
    \/ \E i \in 0..MaxLen, b \in WriteSamples : ViewWrite(i, b)
    \/ FmtDebug
    \/ FmtDisplay

Spec == Init /\ [][Next]_vars

(***************************************************************************)
(* Comparison of two RawStrings a = buf and b = other.                     *)
(***************************************************************************)
InitCmp ==
    /\ buf \in CmpSeqs
    /\ other \in CmpSeqs
    /\ alive = TRUE
    /\ origin = NoOrigin
    /\ last = [op |-> "from"]

\* a == b
CompareEq ==
    /\ last' = [op |-> "eq", res |-> RawString_eq(buf, other)]
    /\ UNCHANGED <<buf, alive, origin, other>>

\* a.cmp(&b)
CompareOrd ==
    /\ last' = [op |-> "cmp", res |-> RawString_cmp(buf, other)]
    /\ UNCHANGED <<buf, alive, origin, other>>

NextCmp == CompareEq \/ CompareOrd

SpecCmp == InitCmp /\ [][NextCmp]_vars

(***************************************************************************)
(* Properties.                                                             *)
(***************************************************************************)
Checked == last.op \in {"to_utf8_checked", "try_from"}

\* C1: the checked conversion (to_utf8_checked, String::try_from) of a
\* RawString succeeds exactly when is_utf8() is true of the same bytes; the
\* empty RawString is valid and converts to the empty string.
C1_CheckedIffIsUtf8 ==
    Checked =>
        /\ last.res.ok <=> is_utf8(last.input)
        /\ last.input = <<>> =>
               is_utf8(last.input) /\ last.res.ok /\ last.res.string = <<>>

C1_Witness ==
    /\ last.op = "try_from"
    /\ Len(last.input) = 3
    /\ ~last.res.ok
    /\ ~is_utf8(last.input)

\* does a well-formed char start at 0-based position i of b
CharStartsAt(b, i) ==
    \E k \in 1..4 : i + k <= Len(b) /\ WellFormedChar(SubSeq(b, i + 1, i + k))

\* the first byte of b that neither continues the valid text before it nor
\* begins a valid encoding
FirstBadByte(b) ==
    CHOOSE i \in 0..(Len(b) - 1) :
        WellFormedText(Take(b, i)) /\ ~CharStartsAt(b, i)

\* C2: a failed checked conversion reports the offset of the first byte
\* that cannot begin or continue a valid encoding (0 for FF FE) and hands
\* back the original bytes, complete and unchanged.
C2_ErrorOffsetAndBytes ==
    (Checked /\ ~last.res.ok) =>
        /\ last.res.valid_up_to = FirstBadByte(last.input)
        /\ last.res.bytes = last.input
        /\ last.input = <<255, 254>> => last.res.valid_up_to = 0

C2_Witness ==
    /\ last.op = "to_utf8_checked"
    /\ last.input = <<104, 224, 104>>
    /\ ~last.res.ok
    /\ last.res.valid_up_to = 1
    /\ last.res.bytes = <<104, 224, 104>>

\* C3: a RawString built from a String s holds the bytes of s, and its
\* checked conversion succeeds with a String equal to s.
C3_RoundTrip ==
    /\ last.op = "from_str" => buf = origin.s
    /\ (last.op = "to_utf8_checked" /\ origin.isStr) =>
           last.res.ok /\ last.res.string = origin.s

C3_Witness ==
    /\ last.op = "to_utf8_checked"
    /\ origin.isStr
    /\ origin.s = <<240, 160, 128, 128, 104>>
    /\ last.res.ok

\* the length of the well-formed char b starts with
FirstCharLen(b) ==
    CHOOSE k \in 1..4 : k <= Len(b) /\ WellFormedChar(Take(b, k))

\* a maximal run of undecodable bytes becomes one marker
RECURSIVE LossyPerRun(_, _)
LossyPerRun(b, inRun) ==
    IF b = <<>> THEN <<>>
    ELSE IF CharStartsAt(b, 0)
    THEN Take(b, FirstCharLen(b)) \o LossyPerRun(Drop(b, FirstCharLen(b)), FALSE)
    ELSE (IF inRun THEN <<>> ELSE REPLACEMENT) \o LossyPerRun(Tail(b), TRUE)

\* C4 as stated: every maximal run of undecodable bytes is replaced by
\* exactly one replacement marker, the valid parts are kept.
C4_OneMarkerPerRun ==
    last.op = "to_utf8_lossy" => last.res.text = LossyPerRun(buf, FALSE)

\* what may follow the start of a char to complete it
Completions == SeqsUpTo({128, 144, 160}, 3) \ {<<>>}

\* p is the start of a well-formed char, with bytes missing
TruncatedChar(p) == \E c \in Completions : WellFormedChar(p \o c)

\* the length of the ill-formed sequence b starts with: the longest start
\* of a well-formed char, or the one byte that starts none
IllFormedLen(b) ==
    LET ks == {k \in 1..3 : k <= Len(b) /\ TruncatedChar(Take(b, k))}
    IN  IF ks = {} THEN 1 ELSE CHOOSE k \in ks : \A j \in ks : j <= k

\* every ill-formed sequence becomes one marker
RECURSIVE LossyPerSequence(_)
LossyPerSequence(b) ==
    IF b = <<>> THEN <<>>
    ELSE IF CharStartsAt(b, 0)
    THEN Take(b, FirstCharLen(b)) \o LossyPerSequence(Drop(b, FirstCharLen(b)))
    ELSE REPLACEMENT \o LossyPerSequence(Drop(b, IllFormedLen(b)))

\* C4, amended: to_utf8_lossy keeps every validly encoded part verbatim and
\* in order and replaces every ill-formed sequence (a byte that starts no
\* encoding, or the longest truncated start of one) by exactly one marker;
\* 68 FF 69 gives "h", one marker, "i"; FF FE gives two markers.
C4_OneMarkerPerSequence ==
    last.op = "to_utf8_lossy" =>
        /\ last.res.text = LossyPerSequence(buf)
        /\ buf = <<104, 255, 105>> =>
               last.res.text = <<104>> \o REPLACEMENT \o <<105>>
        /\ buf = <<255, 254>> => last.res.text = REPLACEMENT \o REPLACEMENT

C4_Witness ==
    /\ last.op = "to_utf8_lossy"
    /\ buf = <<104, 255, 105>>
    /\ last.res.text = <<104, 239, 191, 189, 105>>

\* the chars of a well-formed text, each as its bytes
RECURSIVE CharsOf(_)
CharsOf(text) ==
    IF text = <<>> THEN <<>>
    ELSE <<Take(text, FirstCharLen(text))>>
         \o CharsOf(Drop(text, FirstCharLen(text)))

\* c is a well-formed char of b, found at some position of b
DecodedFrom(c, b) ==
    \E i \in 0..(Len(b) - 1) :
        i + Len(c) <= Len(b) /\ SubSeq(b, i + 1, i + Len(c)) = c

\* text is valid, and each of its chars is a marker or a char of b
ValidTextOf(text, b) ==
    /\ WellFormedText(text)
    /\ \A n \in 1..Len(CharsOf(text)) :
           LET c == CharsOf(text)[n]
           IN  c = REPLACEMENT \/ DecodedFrom(c, b)

\* C5: to_utf8_lossy returns a value for every buffer, and the value is
\* valid text whose chars are chars decoded from the buffer or markers.
C5_LossyTotalAndValid ==
    /\ alive =>
           /\ to_utf8_lossy(buf).owned \in BOOLEAN
           /\ ValidTextOf(to_utf8_lossy(buf).text, buf)
    /\ last.op = "to_utf8_lossy" =>
           /\ last.res.owned \in BOOLEAN
           /\ ValidTextOf(last.res.text, buf)

C5_Witness ==
    /\ last.op = "to_utf8_lossy"
    /\ buf = <<240, 160, 128>>
    /\ last.res.text = REPLACEMENT

\* C6: on valid bytes to_utf8_lossy gives the text of the checked
\* conversion, borrowed; it gives an owned text only after a substitution.
C6_LossyBorrowsValid ==
    last.op = "to_utf8_lossy" =>
        /\ is_utf8(buf) =>
               /\ to_utf8_checked(buf).ok
               /\ last.res.text = to_utf8_checked(buf).string
               /\ ~last.res.owned
        /\ last.res.owned => (~is_utf8(buf) /\ last.res.text # buf)

C6_Witness ==
    /\ last.op = "to_utf8_lossy"
    /\ buf = REPLACEMENT
    /\ is_utf8(buf)
    /\ ~last.res.owned

\* a sorts before b byte by byte, bytes unsigned, a strict prefix first
LexLess(a, b) ==
    \E k \in 0..Len(a) :
        /\ k <= Len(b)
        /\ Take(a, k) = Take(b, k)
        /\ \/ k = Len(a) /\ k < Len(b)
           \/ k < Len(a) /\ k < Len(b) /\ a[k + 1] < b[k + 1]

\* C7: RawStrings are equal exactly when their bytes are, and ordered as
\* their bytes are, unsigned and lexicographically, valid text or not; the
\* order is total, reflexive and transitive.
C7_BytewiseEqOrd ==
    /\ last.op = "eq" => (last.res <=> buf = other)
    /\ last.op = "cmp" =>
           /\ last.res = -1 <=> LexLess(buf, other)
           /\ last.res = 0 <=> buf = other
           /\ last.res = 1 <=> LexLess(other, buf)
           /\ RawString_cmp(other, buf) = -last.res
           /\ RawString_cmp(buf, buf) = 0
           /\ \A c \in CmpSeqs :
                  (last.res <= 0 /\ RawString_cmp(other, c) <= 0)
                      => RawString_cmp(buf, c) <= 0

C7_Witness ==
    /\ last.op = "cmp"
    /\ buf = <<104, 104>>
    /\ other = <<104, 128>>
    /\ last.res = -1

Formatted == last.op \in {"fmt_debug", "fmt_display"}

C9_ValidityDerived ==
    /\ [](last.op = "is_utf8" =>
            /\ last.res = from_utf8(buf).ok
            /\ last.res = is_utf8(from(buf)))
    /\ [][last'.op \in {"is_utf8", "to_utf8_lossy"} => buf' = buf]_vars

C9_Witness ==
    /\ last.op = "is_utf8"
    /\ buf = <<237, 160, 128>>
    /\ ~origin.isStr
    /\ last.res = FALSE

\* C10: the view from as_ref or as_mut covers the buffer's bytes, all of
\* them and in order; taking it changes nothing; a write through the
\* mutable view changes bytes, never the length.
C10_ViewCoversBuffer ==
    /\ [](last.op \in {"as_ref", "as_mut", "view_write"} =>
            /\ last.view.len = Len(buf)
            /\ ViewBytes(last.view, buf) = buf)
    /\ [][last'.op \in {"as_ref", "as_mut"} => buf' = buf]_vars
    /\ [][last'.op = "view_write" => Len(buf') = Len(buf)]_vars

C10_Witness ==
    /\ last.op = "view_write"
    /\ buf = <<104, 255>>
    /\ last.view = [off |-> 0, len |-> 2]

====
